---- MODULE Spec2Model ----
(***************************************************************************)
(* Chatify front end: the session state of the chat client.               *)
(*                                                                         *)
(* Two iterations of the client are in the repository and both are        *)
(* modelled, selected by the variable `variant`:                           *)
(*   "App"     - src/src/App.jsx: no login, the user is the fixed 'user1', *)
(*               the socket connects on construction;                      *)
(*   "ChatApp" - src/unnamed/part_000: login screen, identity kept in      *)
(*               localStorage, socket created with autoConnect: false.     *)
(* Every handler (event callback, effect, timer callback, promise          *)
(* continuation) is one atomic action: JavaScript runs each to completion. *)
(***************************************************************************)
EXTENDS Integers, Sequences, FiniteSets, TLC

\* ---------------------------------------------------------------- bounds
\* largest number of messages in the logs together for which one more is
\* still sent or relayed
MaxLog == 2
\* largest number of history requests in flight for one chat
MaxFetch == 1

\* ------------------------------------------------------------- JS values
\* the value `undefined` of a missing property
Undefined == "<undefined>"
\* activeChatId === null
NoChat == "<null>"
\* typingTimeoutRef.current === null
NullRef == 0

JsNull == [t |-> "null"]
JsNum(n) == [t |-> "num", n |-> n]
JsObj(id, name) == [t |-> "obj", id |-> id, name |-> name]

\* JavaScript truthiness, as used by `user ? ... : ...`, `if (user)`, `!user`
Truthy(v) ==
    CASE v.t = "null" -> FALSE
      [] v.t = "num"  -> v.n # 0
      [] OTHER        -> TRUE

\* property read v.id / v.name: undefined on anything that is not an object
PropId(v) == IF v.t = "obj" THEN v.id ELSE Undefined
PropName(v) == IF v.t = "obj" THEN v.name ELSE <<Undefined>>

\* ---------------------------------------------------------------- strings
\* free text (message content, user names) is a sequence of characters
WhiteSpace == {" "}

RECURSIVE TrimStart(_)
TrimStart(s) ==
    IF s = <<>> THEN <<>>
    ELSE IF Head(s) \in WhiteSpace THEN TrimStart(Tail(s)) ELSE s

RECURSIVE TrimEnd(_)
TrimEnd(s) ==
    IF s = <<>> THEN <<>>
    ELSE IF s[Len(s)] \in WhiteSpace THEN TrimEnd(SubSeq(s, 1, Len(s) - 1)) ELSE s

\* String.prototype.trim
Trim(s) == TrimEnd(TrimStart(s))

\* the texts a user can type into the message input or the login form
Contents == { << >>, <<" ">>, <<" ", "y", " ">> }

\* ------------------------------------------------------------------- JSON
\* A serialized text is a sequence of tokens.  JSON.stringify of an object
\* writes its defined properties in insertion order between braces.
JSONstringify(v) ==
    CASE v.t = "null" -> << [k |-> "null"] >>
      [] v.t = "num"  -> << [k |-> "num", n |-> v.n] >>
      [] OTHER        ->
            << [k |-> "{"] >>
            \o (IF v.id = Undefined THEN <<>>
                ELSE << [k |-> "key", s |-> "id"], [k |-> "str", s |-> v.id] >>)
            \o (IF v.name = <<Undefined>> THEN <<>>
                ELSE << [k |-> "key", s |-> "name"], [k |-> "chars", c |-> v.name] >>)
            \o << [k |-> "}"] >>

\* the texts JSON.parse accepts, with the value it returns for each
IsJsonLiteral(txt) == Len(txt) = 1 /\ txt[1].k \in {"null", "num"}

IsJsonObject(txt) ==
    /\ Len(txt) >= 2
    /\ txt[1].k = "{"
    /\ txt[Len(txt)].k = "}"
    /\ Len(txt) % 2 = 0
    /\ \A i \in 2..(Len(txt) - 1) :
          IF i % 2 = 0 THEN txt[i].k = "key" ELSE txt[i].k \in {"str", "chars"}

\* JSON.parse throws a SyntaxError on any other text
JSONparseThrows(txt) == ~(IsJsonLiteral(txt) \/ IsJsonObject(txt))

\* the value of property key in the object text txt (last occurrence wins)
ParsedId(txt) ==
    LET hits == { i \in 2..(Len(txt) - 1) :
                    i % 2 = 0 /\ txt[i].s = "id" /\ txt[i + 1].k = "str" }
    IN IF hits = {} THEN Undefined
       ELSE txt[(CHOOSE i \in hits : \A j \in hits : j <= i) + 1].s

ParsedName(txt) ==
    LET hits == { i \in 2..(Len(txt) - 1) :
                    i % 2 = 0 /\ txt[i].s = "name" /\ txt[i + 1].k = "chars" }
    IN IF hits = {} THEN <<Undefined>>
       ELSE txt[(CHOOSE i \in hits : \A j \in hits : j <= i) + 1].c

JSONparse(txt) ==
    IF IsJsonLiteral(txt)
    THEN (IF txt[1].k = "null" THEN JsNull ELSE JsNum(txt[1].n))
    ELSE JsObj(ParsedId(txt), ParsedName(txt))

\* ----------------------------------------------------------- localStorage
\* the item 'chatify-user': absent, or present with a text
NoItem == [present |-> FALSE, text |-> <<>>]
Item(txt) == [present |-> TRUE, text |-> txt]

\* Math.random().toString(36).substring(2, 9)
Randoms == {"k3x"}

\* `user_${Date.now()}_${Math.random().toString(36).substring(2, 9)}`
UserId(ts, rnd) == "user_" \o ToString(ts) \o "_" \o rnd

\* what the key can hold when the page is opened: nothing, an empty text,
\* a truncated text, JSON that is not an identity, or an identity written
\* by an earlier login
StoredAtStartup ==
    { NoItem,
      Item(<<>>),
      Item(<< [k |-> "{"], [k |-> "key", s |-> "id"] >>),
      Item(JSONstringify(JsNull)),
      Item(JSONstringify(JsNum(0))),
      Item(JSONstringify(JsNum(7))),
      Item(JSONstringify(JsObj(Undefined, <<Undefined>>))),
      Item(JSONstringify(JsObj("u9", <<Undefined>>))),
      Item(JSONstringify(JsObj(UserId(0, "q7w"), <<"z">>))) }

\* getStoredUser
getStoredUser(item) ==
    IF ~item.present \/ item.text = <<>> THEN JsNull
    ELSE IF JSONparseThrows(item.text) THEN JsNull
    ELSE JSONparse(item.text)

\* ------------------------------------------------------------ the backend
\* the ids the backend uses
ChatIds == {"c1", "c2"}

Chat1 == [id |-> "c1", members |-> <<"user1", "user2">>]
Chat2 == [id |-> "c2", members |-> <<"user1", "user3">>]

AllUsers == [u \in {"user1", "user2", "user3"} |-> <<"n", u>>]
SomeUsers == [u \in {"user2"} |-> <<"n", u>>]

\* GET /api/users (a mapping of user id to user, here to the user's name) and
\* GET /api/chats: the pairs of answers the backend can give
DirectoryResponses ==
    { [users |-> AllUsers, chats |-> << >>],
      [users |-> AllUsers, chats |-> <<Chat1, Chat2>>],
      [users |-> SomeUsers, chats |-> <<Chat2, Chat1>>] }

\* the values Date.now() returns
Clock == {0}

\* a message record, as built by handleSendMessage and as sent by the backend
Message(id, chatId, senderId, content, timestamp) ==
    [id |-> id, chatId |-> chatId, senderId |-> senderId, content |-> content,
     timestamp |-> timestamp, status |-> "sent"]

\* the history of chat c when the backend has stored a message of the peer
StoredHistory(c) == << Message("msg_old", c, "user2", <<"o">>, 0) >>

\* GET /api/messages/{chatId}: the histories the backend can answer with
HistoryResponses(c) == { << >>, StoredHistory(c) }

\* a message of another user, relayed by the backend
PeerMessage(c) == Message("msg_peer", c, "user2", <<"p">>, 0)

\* ------------------------------------------------------------------ state
VARIABLES
    variant,          \* which iteration of the client runs
    storage,          \* localStorage item 'chatify-user'
    user,             \* App: useState(getStoredUser())
    connectCalled,    \* socket.connect() has been requested
    listeners,        \* how many handlers the socket holds per inbound event
    fetchState,       \* fetchData: "none", "pending", "done", "failed"
    users,            \* ChatApp: useState({})
    chats,            \* ChatApp: useState([])
    activeChatId,     \* ChatApp: useState(null)
    messages,         \* ChatApp: useState({}), chat id -> log
    typingChats,      \* ChatApp: useState(new Set()), in insertion order
    pendingHistory,   \* history requests in flight, per chat id
    inputValue,       \* MessageInput: useState('')
    typingTimeoutRef, \* MessageInput: useRef(null)
    timers,           \* armed setTimeout callbacks, with the chatId they captured
    lastTyping,       \* the most recent outbound 'typing' emit of this page session
    last              \* the handler that ran last, its input and, in program
                      \* order, its emits and the history request it issued

vars == << variant, storage, user, connectCalled, listeners, fetchState, users, chats,
           activeChatId, messages, typingChats, pendingHistory, inputValue,
           typingTimeoutRef, timers, lastTyping, last >>

\* the groups of variables the handlers leave alone
identityVars == << variant, storage, user, connectCalled, listeners >>
directoryVars == << fetchState, users, chats >>
inputVars == << inputValue, typingTimeoutRef, timers, lastTyping >>

\* outbound socket emits
JoinRoom(c) == [ev |-> "joinRoom", chatId |-> c]
SendMessage(c, m) == [ev |-> "sendMessage", chatId |-> c, message |-> m]
TypingEmit(c, b) == [ev |-> "typing", chatId |-> c, isTyping |-> b]
NoTyping == [ev |-> "none", chatId |-> NoChat, isTyping |-> FALSE]

\* the request fetch(`${API_URL}/api/messages/${activeChatId}`)
HistoryRequest(c) == [ev |-> "fetchMessages", chatId |-> c]

NoMsg == Message("", NoChat, Undefined, << >>, 0)
Op(op, chatId, flag, msg, emits) ==
    [op |-> op, chatId |-> chatId, flag |-> flag, msg |-> msg, emits |-> emits]

\* ------------------------------------------------------------ derived view
\* the user the chat component works for: the prop currentUser in part_000,
\* the literal 'user1' in App.jsx
currentUserId == IF variant = "App" THEN "user1" ELSE PropId(user)

\* App's render: LoginScreen while !user, ChatApp otherwise
LoginShown == variant = "ChatApp" /\ ~Truthy(user)
ChatMounted == ~LoginShown

\* chat.members.find(m => m !== 'user1' && m !== currentUserId)
RECURSIVE FindOther(_, _)
FindOther(members, me) ==
    IF members = << >> THEN Undefined
    ELSE IF Head(members) # "user1" /\ (variant = "App" \/ Head(members) # me)
         THEN Head(members)
         ELSE FindOther(Tail(members), me)

\* users[otherUserId] is defined
HasOtherUser(chat) == FindOther(chat.members, currentUserId) \in DOMAIN users

\* chats.find(c => c.id === activeChatId) && otherUser, for the users us, the
\* chats cs and the active chat a: ChatWindow and MessageInput are rendered
ChatShown(us, cs, a) ==
    /\ ChatMounted
    /\ \E i \in 1..Len(cs) :
          /\ cs[i].id = a
          /\ \A j \in 1..(i - 1) : cs[j].id # a
          /\ FindOther(cs[i].members, currentUserId) \in DOMAIN us

\* MessageInput is rendered
InputMounted == ChatShown(users, chats, activeChatId)

\* MessageBubble of message m: `if (!sender && isSent) users[currentUserId] =
\* { name: 'You', ... }` writes into the users object it was handed, which is
\* the object ChatApp holds as state; App.jsx returns null instead
MessageBubble(us, m) ==
    IF variant = "ChatApp" /\ m.senderId \notin DOMAIN us /\ m.senderId = currentUserId
    THEN [k \in DOMAIN us \cup {currentUserId} |->
             IF k = currentUserId THEN <<"Y", "o", "u">> ELSE us[k]]
    ELSE us

\* ChatWindow: messages.map(msg => <MessageBubble ... users={users} />)
RECURSIVE ChatWindow(_, _)
ChatWindow(us, log) ==
    IF log = << >> THEN us ELSE ChatWindow(MessageBubble(us, Head(log)), Tail(log))

\* the users object after ChatApp has rendered the users us, the chats cs, the
\* active chat a and the logs: ChatWindow gets `messages[activeChatId] || []`
Render(us, cs, a, logs) ==
    IF ChatShown(us, cs, a)
    THEN ChatWindow(us, IF a \in DOMAIN logs THEN logs[a] ELSE << >>)
    ELSE us

\* the ChatItems the Sidebar renders
SidebarChats == { chats[i].id : i \in { j \in 1..Len(chats) : HasOtherUser(chats[j]) } }

\* the log of chat c as the view reads it: messages[c] || []
LogOf(c) == IF c \in DOMAIN messages THEN messages[c] ELSE << >>

\* the model takes one more message while the logs hold fewer than MaxLog
RECURSIVE TotalLen(_)
TotalLen(cs) ==
    IF cs = {} THEN 0
    ELSE LET c == CHOOSE x \in cs : TRUE IN Len(LogOf(c)) + TotalLen(cs \ {c})

LogRoom == TotalLen(ChatIds) < MaxLog

\* -------------------------------------------------------------- listeners
\* a socket nobody has registered a handler on
NoListeners == [newMessage |-> 0, typing |-> 0]

\* socket.on(ev, handler) adds a handler
SocketOn(l, ev) == [l EXCEPT ![ev] = @ + 1]

\* an off that removes nothing
SocketOff_Keep(l, ev) == l

\* socket.off(ev) removes every handler of the event
SocketOff(l, ev) == [l EXCEPT ![ev] = 0]

\* the body of the listeners effect: socket.on('newMessage', ...) and
\* socket.on('typing', ...)
RegisterListeners(l) == SocketOn(SocketOn(l, "newMessage"), "typing")

\* the cleanup of the listeners effect: socket.off('newMessage'); socket.off('typing')
CleanupListeners(l) == SocketOff(SocketOff(l, "newMessage"), "typing")

\* ---------------------------------------------------------------- startup
\* a socket that connects whoever the user is, as `io(API_URL)` does
Enters_AutoConnect(v, u) == TRUE

\* does App mount ChatApp and call socket.connect() for this user
Enters(v, u) == v = "App" \/ Truthy(u)

\* The state after the module is loaded and App has rendered once and run its
\* effects: useState(getStoredUser()), the connect effect, and - when ChatApp
\* is mounted - the start of fetchData and the registration of the listeners.
InitWith(variants, items) ==
    /\ variant \in variants
    /\ storage \in (IF variant = "App" THEN {NoItem} ELSE items)
    /\ user = (IF variant = "App" THEN JsNull ELSE getStoredUser(storage))
    /\ connectCalled = Enters(variant, user)
    /\ listeners = (IF Enters(variant, user) THEN RegisterListeners(NoListeners)
                                             ELSE NoListeners)
    /\ fetchState = (IF Enters(variant, user) THEN "pending" ELSE "none")
    /\ users = << >>
    /\ chats = << >>
    /\ activeChatId = NoChat
    /\ messages = << >>
    /\ typingChats = << >>
    /\ pendingHistory = [c \in ChatIds |-> 0]
    /\ inputValue = << >>
    /\ typingTimeoutRef = NullRef
    /\ timers = {}
    /\ lastTyping = NoTyping
    /\ last = Op("init", NoChat, FALSE, NoMsg, << >>)

\* an identity written by an earlier login
ReturningUser == Item(JSONstringify(JsObj(UserId(0, "q7w"), <<"z">>)))

Init == InitWith({"App", "ChatApp"}, StoredAtStartup)

\* the page is reloaded: everything but localStorage is rebuilt as in Init
Reload ==
    /\ UNCHANGED << variant, storage >>
    /\ user' = (IF variant = "App" THEN JsNull ELSE getStoredUser(storage))
    /\ connectCalled' = Enters(variant, user')
    /\ listeners' = (IF Enters(variant, user') THEN RegisterListeners(NoListeners)
                                               ELSE NoListeners)
    /\ fetchState' = (IF Enters(variant, user') THEN "pending" ELSE "none")
    /\ users' = << >>
    /\ chats' = << >>
    /\ activeChatId' = NoChat
    /\ messages' = << >>
    /\ typingChats' = << >>
    /\ pendingHistory' = [c \in ChatIds |-> 0]
    /\ inputValue' = << >>
    /\ typingTimeoutRef' = NullRef
    /\ timers' = {}
    /\ lastTyping' = NoTyping
    /\ last' = Op("reload", NoChat, FALSE, NoMsg, << >>)

\* ------------------------------------------------------------------ login
\* the identity handleLogin(username) builds at time ts
NewUser(username, ts, rnd) == JsObj(UserId(ts, rnd), username)

\* a login that keeps the identity in memory only
Persisted_Forgotten(newUser) == NoItem

\* what handleLogin writes under 'chatify-user'
Persisted(newUser) == Item(JSONstringify(newUser))

\* handleLogin(username): a new identity, persisted and made current
handleLogin(username, ts, rnd) ==
    /\ storage' = Persisted(NewUser(username, ts, rnd))
    /\ user' = NewUser(username, ts, rnd)

\* LoginScreen.handleSubmit with the form holding `raw`; after a login App
\* re-renders, its effect calls socket.connect() and ChatApp mounts, which
\* starts fetchData and registers the listeners
LoginSubmit(raw, ts, rnd) ==
    /\ LoginShown
    /\ IF Trim(raw) # << >>
       THEN /\ handleLogin(Trim(raw), ts, rnd)
            /\ connectCalled' = TRUE
            /\ listeners' = RegisterListeners(listeners)
            /\ fetchState' = "pending"
       ELSE UNCHANGED << storage, user, connectCalled, listeners, fetchState >>
    /\ last' = Op("login", NoChat, Trim(raw) # << >>,
                  Message("", NoChat, Undefined, Trim(raw), 0), << >>)
    /\ UNCHANGED << variant, users, chats, activeChatId, messages, typingChats,
                    pendingHistory, inputVars >>

\* ------------------------------------------------------------ active chat
\* fetchMessages(): `if (!messages[activeChatId])` the history is requested
NeedsHistory(c) == c \notin DOMAIN messages

\* the effect that issues the history request ahead of the joinRoom
ActiveChatEmits_FetchFirst(c) ==
    (IF NeedsHistory(c) THEN << HistoryRequest(c) >> ELSE << >>) \o << JoinRoom(c) >>

\* what the effect on [activeChatId] sends, in program order:
\* socket.emit('joinRoom', c), then the request of fetchMessages()
ActiveChatEmits(c) ==
    << JoinRoom(c) >> \o (IF NeedsHistory(c) THEN << HistoryRequest(c) >> ELSE << >>)

\* the effect on [activeChatId], run after activeChatId became c:
\* socket.emit('joinRoom', c), then fetchMessages()
ActiveChatEffect(c) ==
    IF NeedsHistory(c)
    THEN /\ pendingHistory[c] < MaxFetch
         /\ pendingHistory' = [pendingHistory EXCEPT ![c] = @ + 1]
    ELSE UNCHANGED pendingHistory

\* ------------------------------------------------------------- fetchData
\* usersData[currentUser.id] = {...usersData['user1'], name}; delete usersData['user1']
ReplaceGenericUser(usersData) ==
    IF variant = "ChatApp" /\ "user1" \in DOMAIN usersData
    THEN LET me == currentUserId
             withMe == [k \in DOMAIN usersData \cup {me} |->
                           IF k = me THEN PropName(user) ELSE usersData[k]]
         IN [k \in DOMAIN withMe \ {"user1"} |-> withMe[k]]
    ELSE usersData

\* both requests of fetchData answered: users and chats are set and the
\* first chat becomes the active one (the closure's activeChatId is null)
FetchDataOk(r) ==
    /\ fetchState = "pending"
    /\ fetchState' = "done"
    /\ chats' = r.chats
    /\ IF Len(r.chats) > 0
       THEN /\ activeChatId' = r.chats[1].id
            /\ ActiveChatEffect(r.chats[1].id)
            /\ last' = Op("fetchDataOk", r.chats[1].id, TRUE, NoMsg,
                          ActiveChatEmits(r.chats[1].id))
       ELSE /\ UNCHANGED << activeChatId, pendingHistory >>
            /\ last' = Op("fetchDataOk", NoChat, FALSE, NoMsg, << >>)
    /\ users' = Render(ReplaceGenericUser(r.users), r.chats, activeChatId', messages)
    /\ UNCHANGED << identityVars, messages, typingChats, inputVars >>

\* a catch block that starts fetchData again
FetchDataFail_Retry ==
    /\ fetchState = "pending"
    /\ fetchState' = "pending"
    /\ last' = Op("fetchDataFail", NoChat, FALSE, NoMsg, << >>)
    /\ UNCHANGED << identityVars, users, chats, activeChatId, messages,
                    typingChats, pendingHistory, inputVars >>

\* one of the two requests failed: the catch block logs and returns
FetchDataFail ==
    /\ fetchState = "pending"
    /\ fetchState' = "failed"
    /\ last' = Op("fetchDataFail", NoChat, FALSE, NoMsg, << >>)
    /\ UNCHANGED << identityVars, users, chats, activeChatId, messages,
                    typingChats, pendingHistory, inputVars >>

\* a click on the ChatItem of chat c: setActiveChatId(c)
SelectChat(c) ==
    /\ ChatMounted
    /\ c \in SidebarChats
    /\ activeChatId' = c
    /\ IF c # activeChatId
       THEN /\ ActiveChatEffect(c)
            /\ last' = Op("selectChat", c, TRUE, NoMsg, ActiveChatEmits(c))
       ELSE /\ UNCHANGED pendingHistory
            /\ last' = Op("selectChat", c, FALSE, NoMsg, << >>)
    /\ users' = Render(users, chats, c, messages)
    /\ UNCHANGED << identityVars, fetchState, chats, messages, typingChats, inputVars >>

\* setMessages(prev => ({ ...prev, [activeChatId]: data }))
SetHistory(logs, c, data) ==
    [k \in DOMAIN logs \cup {c} |-> IF k = c THEN data ELSE logs[k]]

\* the history request for chat c is answered with data
FetchMessagesOk(c, data) ==
    /\ pendingHistory[c] > 0
    /\ pendingHistory' = [pendingHistory EXCEPT ![c] = @ - 1]
    /\ messages' = SetHistory(messages, c, data)
    /\ last' = Op("fetchMessagesOk", c, FALSE, NoMsg, << >>)
    /\ users' = Render(users, chats, activeChatId, messages')
    /\ UNCHANGED << identityVars, fetchState, chats, activeChatId, typingChats, inputVars >>

\* the history request for chat c failed: the catch block logs and returns
FetchMessagesFail(c) ==
    /\ pendingHistory[c] > 0
    /\ pendingHistory' = [pendingHistory EXCEPT ![c] = @ - 1]
    /\ last' = Op("fetchMessagesFail", c, FALSE, NoMsg, << >>)
    /\ UNCHANGED << identityVars, directoryVars, activeChatId, messages,
                    typingChats, inputVars >>

\* --------------------------------------------------------- inbound events
\* [...(prev[chatId] || []), m]
AppendTo(logs, c, m) ==
    [k \in DOMAIN logs \cup {c} |->
        IF k = c THEN (IF c \in DOMAIN logs THEN Append(logs[c], m) ELSE << m >>)
        ELSE logs[k]]

\* the guard of the 'newMessage' listener: part_000 returns early on the
\* user's own message, App.jsx has no such test
IsEcho(m) == variant = "ChatApp" /\ m.senderId = currentUserId

\* the state update of the 'newMessage' listener
applyIncomingMessage(logs, m) == IF IsEcho(m) THEN logs ELSE AppendTo(logs, m.chatId, m)

\* the socket calls every handler registered for 'newMessage' with m
RECURSIVE DispatchMessage(_, _, _)
DispatchMessage(n, logs, m) ==
    IF n = 0 THEN logs ELSE DispatchMessage(n - 1, applyIncomingMessage(logs, m), m)

\* socket.on('newMessage', ...)
OnNewMessage(m) ==
    /\ ChatMounted
    /\ LogRoom
    /\ messages' = DispatchMessage(listeners.newMessage, messages, m)
    /\ last' = Op("newMessage", m.chatId, FALSE, m, << >>)
    /\ users' = Render(users, chats, activeChatId, messages')
    /\ UNCHANGED << identityVars, fetchState, chats, activeChatId, typingChats,
                    pendingHistory, inputVars >>

\* Set.prototype.has / add / delete (a Set keeps insertion order)
SetHas(set, k) == \E i \in 1..Len(set) : set[i] = k

\* an add that does not look for the key first, as an array push would
SetAdd_Push(set, k) == Append(set, k)

SetAdd(set, k) == IF SetHas(set, k) THEN set ELSE Append(set, k)
SetDelete(set, k) == SelectSeq(set, LAMBDA e : e # k)

\* the state update of the 'typing' listener
applyTyping(set, c, isTyping) == IF isTyping THEN SetAdd(set, c) ELSE SetDelete(set, c)

\* the socket calls every handler registered for 'typing' with the event
RECURSIVE DispatchTyping(_, _, _, _)
DispatchTyping(n, set, c, isTyping) ==
    IF n = 0 THEN set ELSE DispatchTyping(n - 1, applyTyping(set, c, isTyping), c, isTyping)

\* the users an inbound 'typing' event can name: the peer, or the current
\* user when the backend relays the event to every member of the room
TypingUsers == { "user2", currentUserId }

\* an inbound 'typing' event { chatId, user, isTyping }, as `last` records it
TypingEvent(c, u) == Message("", c, u, << >>, 0)

\* socket.on('typing', ({ chatId, isTyping }) => ...): the listener takes
\* chatId and isTyping from the event and never reads its user
OnTyping(c, u, isTyping) ==
    /\ ChatMounted
    /\ typingChats' = DispatchTyping(listeners.typing, typingChats, c, isTyping)
    /\ last' = Op("typing", c, isTyping, TypingEvent(c, u), << >>)
    /\ UNCHANGED << identityVars, directoryVars, activeChatId, messages,
                    pendingHistory, inputVars >>

\* React runs the listeners effect again: its cleanup, then its body (the
\* effect depends on [currentUser.id]; a re-mount of the chat component does
\* the same)
ListenersEffectRerun ==
    /\ ChatMounted
    /\ listeners' = RegisterListeners(CleanupListeners(listeners))
    /\ last' = Op("listenersEffect", NoChat, FALSE, NoMsg, << >>)
    /\ UNCHANGED << variant, storage, user, connectCalled, directoryVars,
                    activeChatId, messages, typingChats, pendingHistory, inputVars >>

\* the messages the backend can relay: one of a peer, or the copy of a message
\* this client sent (still in a log)
Relayed ==
    { PeerMessage(c) : c \in ChatIds }
    \cup { m \in UNION { { LogOf(c)[i] : i \in 1..Len(LogOf(c)) } : c \in ChatIds } :
             m.senderId = currentUserId }

\* ---------------------------------------------------------------- sending
\* toLocaleTimeString('en-US', { hour: '2-digit', minute: '2-digit' }): the
\* minute of the day, seconds and milliseconds dropped
MsPerMinute == 60000
MinutesPerDay == 1440
FormatTime(t) == (t \div MsPerMinute) % MinutesPerDay

\* `msg_${Date.now()}`
MessageId(ts) == "msg_" \o ToString(ts)

\* a guard that forgets the trim: `if (!content) return`
Sendable_NoTrim(content) == content # << >>

\* does handleSendMessage accept the content: `if (!content.trim()) return`
Sendable(content) == Trim(content) # << >>

\* the message handleSendMessage builds at time ts
NewMessage(content, ts) ==
    Message(MessageId(ts), activeChatId, currentUserId, content, FormatTime(ts))

\* the emits of handleSendMessage(content)
SendEmits(content, ts) ==
    IF Sendable(content)
    THEN << SendMessage(activeChatId, NewMessage(content, ts)) >>
    ELSE << >>

\* the logs after handleSendMessage(content)
applyOutgoingSend(logs, content, ts) ==
    IF Sendable(content) THEN AppendTo(logs, activeChatId, NewMessage(content, ts)) ELSE logs

\* ---------------------------------------------------------- MessageInput
\* setTimeout returns an id no armed timer has
NewTimerId == CHOOSE n \in 1..(Cardinality(timers) + 1) : \A t \in timers : t.id # n

\* clearTimeout(id)
ClearTimeout(id) == { t \in timers : t.id # id }

\* a start emitted on every keystroke
StartEmits_EveryKey == << TypingEmit(activeChatId, TRUE) >>

\* handleTyping emits the typing start only when no timer is pending
StartEmits == IF typingTimeoutRef = NullRef THEN << TypingEmit(activeChatId, TRUE) >> ELSE << >>

\* a new timer armed without cancelling the pending one
TimersAfterTyping_NoClear == timers \cup { [id |-> NewTimerId, chatId |-> activeChatId] }

\* the timers after handleTyping: the pending one is cancelled, a new one armed
TimersAfterTyping ==
    (IF typingTimeoutRef = NullRef THEN timers ELSE ClearTimeout(typingTimeoutRef))
    \cup { [id |-> NewTimerId, chatId |-> activeChatId] }

\* MessageInput.handleTyping with e.target.value = value
HandleTyping(value) ==
    /\ InputMounted
    /\ inputValue' = value
    /\ timers' = TimersAfterTyping
    /\ typingTimeoutRef' = NewTimerId
    /\ lastTyping' = (IF StartEmits = << >> THEN lastTyping ELSE StartEmits[1])
    /\ last' = Op("handleTyping", activeChatId, FALSE, NoMsg, StartEmits)
    /\ UNCHANGED << identityVars, directoryVars, activeChatId, messages,
                    typingChats, pendingHistory >>

\* the callback of the timer t armed by handleTyping
TimerFire(t) ==
    /\ t \in timers
    /\ timers' = timers \ {t}
    /\ typingTimeoutRef' = NullRef
    /\ lastTyping' = TypingEmit(t.chatId, FALSE)
    /\ last' = Op("timerFire", t.chatId, FALSE, NoMsg, << TypingEmit(t.chatId, FALSE) >>)
    /\ UNCHANGED << identityVars, directoryVars, activeChatId, messages,
                    typingChats, pendingHistory, inputValue >>

\* handleSubmit emits the typing stop when a timer is pending
StopEmits == IF typingTimeoutRef # NullRef THEN << TypingEmit(activeChatId, FALSE) >> ELSE << >>

\* a submit that leaves the pending timer armed
TimersAfterSubmit_Leak == timers

\* the timers after handleSubmit
TimersAfterSubmit ==
    IF typingTimeoutRef # NullRef THEN ClearTimeout(typingTimeoutRef) ELSE timers

\* MessageInput.handleSubmit at time ts: onSendMessage(inputValue), then the typing stop
HandleSubmit(ts) ==
    /\ InputMounted
    /\ Sendable(inputValue) => LogRoom
    /\ messages' = applyOutgoingSend(messages, inputValue, ts)
    /\ inputValue' = << >>
    /\ timers' = TimersAfterSubmit
    /\ typingTimeoutRef' = NullRef
    /\ lastTyping' = (IF StopEmits = << >> THEN lastTyping ELSE StopEmits[1])
    /\ last' = Op("handleSubmit", activeChatId, FALSE, NoMsg,
                  SendEmits(inputValue, ts) \o StopEmits)
    /\ users' = Render(users, chats, activeChatId, messages')
    /\ UNCHANGED << identityVars, fetchState, chats, activeChatId, typingChats,
                    pendingHistory >>

\* ---------------------------------------------------------- specification
DoLogin == \E raw \in Contents, ts \in Clock, rnd \in Randoms : LoginSubmit(raw, ts, rnd)
DoFetchDataOk == \E r \in DirectoryResponses : FetchDataOk(r)
DoSelectChat == \E c \in ChatIds : SelectChat(c)
DoFetchMessagesOk == \E c \in ChatIds : \E data \in HistoryResponses(c) : FetchMessagesOk(c, data)
DoFetchMessagesFail == \E c \in ChatIds : FetchMessagesFail(c)
DoFetchStoredHistory == \E c \in ChatIds : FetchMessagesOk(c, StoredHistory(c))
DoNewMessage == \E m \in Relayed : OnNewMessage(m)
DoTyping == \E c \in ChatIds, u \in TypingUsers, b \in BOOLEAN : OnTyping(c, u, b)
DoHandleTyping == \E value \in Contents : HandleTyping(value)
DoTimerFire == \E t \in timers : TimerFire(t)
DoHandleSubmit == \E ts \in Clock : HandleSubmit(ts)

\* the whole client
Next ==
    \/ Reload
    \/ DoLogin
    \/ DoFetchDataOk
    \/ FetchDataFail
    \/ DoSelectChat
    \/ DoFetchMessagesOk
    \/ DoFetchMessagesFail
    \/ DoNewMessage
    \/ DoTyping
    \/ DoHandleTyping
    \/ DoTimerFire
    \/ DoHandleSubmit
    \/ ListenersEffectRerun

Spec == Init /\ [][Next]_vars

\* The handlers work on separate parts of the state, so the whole client is
\* checked part by part: each specification below runs the handlers that
\* read or write the part it is about, from every start state of that part.

\* identity: startup with any content of the key, login, reload, and the
\* directory fetch, chat selection and message input that follow a login
IdentityNext ==
    \/ Reload
    \/ DoLogin
    \/ DoFetchDataOk
    \/ FetchDataFail
    \/ DoSelectChat
    \/ DoFetchMessagesFail
    \/ DoHandleTyping
    \/ DoTimerFire
    \/ DoHandleSubmit

IdentitySpec == InitWith({"ChatApp"}, StoredAtStartup) /\ [][IdentityNext]_vars

\* the message input: keystrokes, the typing-stop timer, submits and chat
\* switches, with a backend that answers no history request
InputNext ==
    \/ Reload
    \/ DoFetchDataOk
    \/ DoSelectChat
    \/ DoFetchMessagesFail
    \/ DoHandleTyping
    \/ DoTimerFire
    \/ DoHandleSubmit

InputSpec == InitWith({"App", "ChatApp"}, {ReturningUser}) /\ [][InputNext]_vars

\* the event loop runs the callback of every armed timer
InputLive == InputSpec /\ WF_vars(DoTimerFire)

\* the message logs: sends, relayed messages, chat switches and history
MessageNext ==
    \/ Reload
    \/ DoFetchDataOk
    \/ FetchDataFail
    \/ DoSelectChat
    \/ DoFetchMessagesOk
    \/ DoFetchMessagesFail
    \/ DoNewMessage
    \/ DoHandleTyping
    \/ DoTimerFire
    \/ DoHandleSubmit

MessageSpec == InitWith({"App", "ChatApp"}, {ReturningUser}) /\ [][MessageNext]_vars

\* the typing set: inbound typing events in any state of the chat component
\* and of the message input
TypingNext ==
    \/ Reload
    \/ DoLogin
    \/ DoFetchDataOk
    \/ FetchDataFail
    \/ DoSelectChat
    \/ DoFetchMessagesFail
    \/ DoTyping
    \/ DoHandleTyping
    \/ DoTimerFire
    \/ DoHandleSubmit

TypingSpec == InitWith({"App", "ChatApp"}, {NoItem, ReturningUser}) /\ [][TypingNext]_vars

\* the listeners: mounts by startup, login and reload, re-runs of the
\* listeners effect, and inbound events in any state of the chat list
ListenerNext ==
    \/ Reload
    \/ DoLogin
    \/ ListenersEffectRerun
    \/ DoFetchDataOk
    \/ DoSelectChat
    \/ DoFetchMessagesOk
    \/ DoFetchMessagesFail
    \/ DoNewMessage
    \/ DoTyping

ListenerSpec == InitWith({"App", "ChatApp"}, {NoItem, ReturningUser}) /\ [][ListenerNext]_vars

\* the history: a backend that holds a stored message for every chat and
\* answers every history request with it, while messages arrive, the user
\* sends and chats are opened
HistoryNext ==
    \/ Reload
    \/ DoFetchDataOk
    \/ DoSelectChat
    \/ DoFetchStoredHistory
    \/ DoNewMessage
    \/ DoHandleTyping
    \/ DoHandleSubmit

HistorySpec == InitWith({"App", "ChatApp"}, {ReturningUser}) /\ [][HistoryNext]_vars

\* ------------------------------------------------------------------ claims
\* the emits of one kind among the emits of a handler
EmitsOf(emits, ev) == SelectSeq(emits, LAMBDA e : e.ev = ev)

\* is p a prefix of s
IsPrefix(p, s) == Len(p) <= Len(s) /\ SubSeq(s, 1, Len(p)) = p

\* C1: a submit of a content whose trim is non-empty appends exactly one
\* message to the active chat's log, leaves the other logs alone and emits
\* exactly one 'sendMessage' carrying that message and the active chat id;
\* a submit of an empty or all-whitespace content leaves the logs unchanged
\* and emits no 'sendMessage'.
C1_SendAppendsAndEmitsOnce ==
    [][ last'.op = "handleSubmit" =>
          LET sends == EmitsOf(last'.emits, "sendMessage")
              c == activeChatId
          IN IF Trim(inputValue) # << >>
             THEN /\ c \in DOMAIN messages'
                  /\ Len(messages'[c]) = Len(LogOf(c)) + 1
                  /\ IsPrefix(LogOf(c), messages'[c])
                  /\ messages'[c][Len(messages'[c])].content = inputValue
                  /\ \A k \in ChatIds \ {c} :
                        /\ (k \in DOMAIN messages') = (k \in DOMAIN messages)
                        /\ k \in DOMAIN messages => messages'[k] = messages[k]
                  /\ Len(sends) = 1
                  /\ sends[1].chatId = c
                  /\ sends[1].message = messages'[c][Len(messages'[c])]
             ELSE /\ messages' = messages
                  /\ sends = << >>
      ]_vars

\* C1 witness: a submit has sent a message that is now the last of its log
C1_Witness ==
    /\ last.op = "handleSubmit"
    /\ EmitsOf(last.emits, "sendMessage") # << >>
    /\ LogOf(activeChatId) # << >>
    /\ LogOf(activeChatId)[Len(LogOf(activeChatId))].content = <<" ", "y", " ">>

\* the debouncer of the message input: Idle while no timer is pending
Idle == typingTimeoutRef = NullRef
Announcing == typingTimeoutRef # NullRef

\* the 'typing' emits among the emits of the handler that ran last
TypingOf(emits) == EmitsOf(emits, "typing")

\* C2: a keystroke in Idle emits exactly one typing{isTyping:true} and arms
\* the timer, a keystroke in Announcing emits nothing and keeps a timer
\* armed, so a burst of keystrokes emits one start; the timer's callback emits
\* exactly one typing{isTyping:false} and returns the debouncer to Idle; and
\* an armed timer is eventually gone: Announcing leads to Idle.
C2_BurstOneStartOneStop ==
    /\ [][ last'.op = "handleTyping" =>
             /\ Idle => /\ Len(last'.emits) = 1
                        /\ last'.emits[1].ev = "typing"
                        /\ last'.emits[1].isTyping
             /\ Announcing => last'.emits = << >>
             /\ Announcing'
         ]_vars
    /\ [][ last'.op = "timerFire" =>
             /\ Announcing
             /\ Len(last'.emits) = 1
             /\ last'.emits[1].ev = "typing"
             /\ ~last'.emits[1].isTyping
             /\ Idle'
             /\ timers' = {}
         ]_vars
    /\ (Announcing ~> Idle)

\* C2 witness: the timer armed by a keystroke has fired and the input is Idle
C2_Witness ==
    /\ last.op = "timerFire"
    /\ Idle
    /\ inputValue = <<" ", "y", " ">>
    /\ lastTyping.ev = "typing" /\ ~lastTyping.isTyping

\* C3: a submit in Announcing emits exactly one typing{isTyping:false},
\* cancels the timer and returns to Idle; a submit in Idle emits no typing
\* event; no handler emits more than one typing event, and every typing emit
\* is the negation of the one before it, the first being isTyping:true.
C3_SubmitStopsOnceAndEmitsAlternate ==
    [][ LET ty == TypingOf(last'.emits)
        IN /\ Len(ty) <= 1
           /\ Len(ty) = 1 => ty[1].isTyping = ~lastTyping.isTyping
           /\ Len(ty) = 1 => lastTyping' = ty[1]
           /\ last'.op = "handleSubmit" =>
                 /\ Announcing => /\ Len(ty) = 1
                                  /\ ~ty[1].isTyping
                                  /\ timers' = {}
                 /\ Idle => ty = << >>
                 /\ Idle'
      ]_vars

\* C3 witness: a submit in Announcing has emitted the typing stop
C3_Witness ==
    /\ last.op = "handleSubmit"
    /\ TypingOf(last.emits) # << >>
    /\ Idle
    /\ timers = {}

\* C4: at most one typing-stop timer is armed, and typingTimeoutRef is
\* non-null exactly when one is armed, and then it is that timer's id.
C4_OneTimerTrackedByRef ==
    /\ Cardinality(timers) <= 1
    /\ Idle <=> timers = {}
    /\ \A t \in timers : t.id = typingTimeoutRef

\* C4 witness: a keystroke in Announcing has re-armed the timer
C4_Witness ==
    /\ last.op = "handleTyping"
    /\ last.emits = << >>
    /\ Cardinality(timers) = 1

\* C5: every outbound typing{isTyping:false} carries the chat id of the
\* typing{isTyping:true} before it, and a keystroke in a chat for which no
\* isTyping:true is outstanding emits typing{isTyping:true} for that chat.
C5_TypingPerRoom ==
    [][ LET ty == TypingOf(last'.emits)
        IN /\ (Len(ty) = 1 /\ ~ty[1].isTyping /\ lastTyping.isTyping)
                 => ty[1].chatId = lastTyping.chatId
           /\ (last'.op = "handleTyping"
                  /\ ~(lastTyping.isTyping /\ lastTyping.chatId = activeChatId))
                 => ty = << TypingEmit(activeChatId, TRUE) >>
      ]_vars

\* C6: an inbound newMessage whose sender is the current user leaves every
\* chat's log unchanged.
C6_EchoSuppressed ==
    [][ (last'.op = "newMessage" /\ last'.msg.senderId = currentUserId)
          => messages' = messages
      ]_vars

\* C7: whenever a chat's log changes within a page session, the previous log
\* is a prefix of the new one.
C7_LogsAppendOnly ==
    [][ last'.op # "reload" => \A c \in ChatIds : IsPrefix(LogOf(c), LogOf(c)') ]_vars

\* the identities a login can create
IsLoginIdentity(u) ==
    /\ u.t = "obj"
    /\ \E ts \in Clock, rnd \in Randoms : u.id = UserId(ts, rnd)
    /\ u.name # <<Undefined>>

\* C8: a login with a name makes the current user an identity with that name
\* and an id user_<timestamp>_<random> and writes exactly that identity under
\* the key; a reload with the current user's identity under the key reads
\* back that same identity and leaves the key alone; and only a login
\* changes what is under the key.
C8_IdentityRoundTrip ==
    [][ /\ (last'.op = "login" /\ last'.flag) =>
              /\ IsLoginIdentity(user')
              /\ user'.name = last'.msg.content
              /\ storage'.present
              /\ ~JSONparseThrows(storage'.text)
              /\ JSONparse(storage'.text) = user'
        /\ (last'.op = "reload" /\ IsLoginIdentity(user)
               /\ storage.present /\ ~JSONparseThrows(storage.text)
               /\ JSONparse(storage.text) = user) =>
              /\ user' = user
              /\ storage' = storage
        /\ storage' # storage => (last'.op = "login" /\ last'.flag)
      ]_vars

\* C8 witness: the page was reloaded after a login as "y" and the same
\* identity is the current user again
C8_Witness ==
    /\ last.op = "reload"
    /\ user = JsObj(UserId(0, "k3x"), <<"y">>)
    /\ storage.present
    /\ JSONparse(storage.text) = user

\* an item that holds an identity: JSON of an object with an id and a name
HoldsIdentity(item) ==
    /\ item.present
    /\ item.text # << >>
    /\ ~JSONparseThrows(item.text)
    /\ JSONparse(item.text).t = "obj"
    /\ JSONparse(item.text).id # Undefined
    /\ JSONparse(item.text).name # <<Undefined>>

\* C9: when the page starts with the key missing or not holding an identity,
\* the login screen is shown, the chat view is not mounted, nothing is
\* fetched and socket.connect() is not called.
C9_MalformedIdentityNotLoggedIn ==
    (variant = "ChatApp" /\ last.op \in {"init", "reload"} /\ ~HoldsIdentity(storage))
       => (LoginShown /\ ~connectCalled /\ fetchState = "none")

\* no key twice in the typing set
NoDuplicates(set) == \A i, j \in 1..Len(set) : set[i] = set[j] => i = j

\* C10: the typing set never holds a key twice; after an inbound typing event
\* for a key the key is in the set exactly when the event said isTyping:true,
\* and every other key is in the set exactly when it was before; and within a
\* page session nothing else changes the set.
C10_TypingSetFollowsLastEvent ==
    [][ /\ NoDuplicates(typingChats')
        /\ last'.op = "typing" =>
              \A k \in ChatIds :
                 SetHas(typingChats', k) =
                    (IF k = last'.chatId THEN last'.flag ELSE SetHas(typingChats, k))
        /\ last'.op \notin {"typing", "reload"} => typingChats' = typingChats
      ]_vars

\* C10 witness: two typing starts have filled the set and a stop has removed
\* the key that was added first
C10_Witness ==
    /\ last.op = "typing"
    /\ ~last.flag
    /\ last.chatId = "c1"
    /\ typingChats = << "c2" >>

\* C11: an inbound typing event whose user is the current user is ignored: it
\* leaves the typing set unchanged.
C11_OwnTypingIgnored ==
    [][ (last'.op = "typing" /\ last'.msg.senderId = currentUserId)
          => typingChats' = typingChats ]_vars

\* C12: the step in which a chat becomes the active one emits 'joinRoom' for
\* that chat first, ahead of the history request of that step; a history
\* request is issued only in such a step and a 'sendMessage' goes only to the
\* chat that is active, so the joinRoom of a chat precedes every history
\* request and every message for it; and no joinRoom is emitted except for
\* the chat that becomes active.
C12_JoinRoomOnActivation ==
    [][ LET joins == EmitsOf(last'.emits, "joinRoom")
            reqs == EmitsOf(last'.emits, "fetchMessages")
            sends == EmitsOf(last'.emits, "sendMessage")
            becomes == activeChatId' # activeChatId /\ activeChatId' # NoChat
        IN /\ becomes => /\ last'.emits # << >>
                          /\ last'.emits[1] = JoinRoom(activeChatId')
                          /\ Len(joins) = 1
           /\ joins # << >> => becomes
           /\ reqs # << >> => /\ becomes
                              /\ last'.emits = << JoinRoom(activeChatId'),
                                                  HistoryRequest(activeChatId') >>
           /\ \A c \in ChatIds :
                 pendingHistory'[c] > pendingHistory[c] => reqs = << HistoryRequest(c) >>
           /\ sends # << >> => /\ activeChatId # NoChat
                               /\ activeChatId' = activeChatId
                               /\ \A i \in 1..Len(sends) : sends[i].chatId = activeChatId
      ]_vars

\* C12 witness: the second listed chat was opened from the sidebar, which
\* emitted its joinRoom, and a message has now been sent to it
C12_Witness ==
    /\ last.op = "handleSubmit"
    /\ EmitsOf(last.emits, "sendMessage") # << >>
    /\ Len(chats) = 2
    /\ activeChatId = chats[2].id

\* the socket.emit calls among the effects of a handler
SocketEmits(emits) ==
    SelectSeq(emits, LAMBDA e : e.ev \in {"joinRoom", "sendMessage", "typing"})

\* C13: socket.connect() has been called only if the current user is
\* non-null, and a handler emits 'joinRoom', 'sendMessage' or 'typing' only
\* when connect() was called before it ran.
C13_ConnectBeforeEmit ==
    /\ connectCalled => user # JsNull
    /\ [][ /\ connectCalled' => user' # JsNull
           /\ SocketEmits(last'.emits) # << >> => connectCalled
         ]_vars

\* C13 witness: a user has logged in, which called connect(), and a handler
\* that ran later has emitted on the socket
C13_Witness ==
    /\ variant = "ChatApp"
    /\ storage = Persisted(NewUser(<<"y">>, 0, "k3x"))
    /\ connectCalled
    /\ SocketEmits(last.emits) # << >>

\* C14: when the users/chats fetch fails, users and chats stay empty, no chat
\* becomes active, no history is requested and the fetch is not started again
\* before the page is reloaded; when a history fetch fails, the logs, the
\* chat's log among them, are left as they were; and either failure leaves
\* the rest of the session state alone, so that the chat component, the
\* sidebar and the message input accept afterwards what they accepted before.
C14_FetchFailureDegrades ==
    [][ /\ last'.op = "fetchDataFail" =>
              /\ users = << >> /\ users' = << >>
              /\ chats = << >> /\ chats' = << >>
              /\ activeChatId = NoChat /\ activeChatId' = NoChat
              /\ fetchState' = "failed"
              /\ pendingHistory' = pendingHistory
        /\ (fetchState = "failed" /\ last'.op # "reload") => fetchState' = "failed"
        /\ last'.op = "fetchMessagesFail" =>
              /\ messages' = messages
              /\ UNCHANGED << directoryVars, activeChatId >>
        /\ last'.op \in {"fetchDataFail", "fetchMessagesFail"} =>
              /\ UNCHANGED << identityVars, messages, typingChats, inputVars >>
              /\ ChatMounted' = ChatMounted
              /\ SidebarChats' = SidebarChats
              /\ InputMounted' = InputMounted
      ]_vars

\* C14 witness: the history request of a chat has failed after a message was
\* put into the chat's log, and the log still holds that message
C14_Witness ==
    /\ last.op = "fetchMessagesFail"
    /\ last.chatId = activeChatId
    /\ Len(LogOf(activeChatId)) = 1
    /\ InputMounted

\* C15: no render of a view component changes the users map, the chats, the
\* logs or the typing set: each of them changes only in the handlers that set
\* it, the users and the chats when the directory fetch completes, the logs on
\* a history answer, an inbound message or a send, the typing set on an
\* inbound typing event (and all of them when the page is reloaded).
C15_ViewOnlyReads ==
    [][ /\ users' # users => last'.op \in {"fetchDataOk", "reload"}
        /\ chats' # chats => last'.op \in {"fetchDataOk", "reload"}
        /\ messages' # messages =>
              last'.op \in {"fetchMessagesOk", "newMessage", "handleSubmit", "reload"}
        /\ typingChats' # typingChats => last'.op \in {"typing", "reload"}
      ]_vars

\* C16: at most one handler is registered for 'newMessage' and one for
\* 'typing', exactly one of each while the chat component is mounted and none
\* while it is not, and the effect's cleanup leaves none; and an inbound
\* 'newMessage' of another sender is appended exactly once, at the end of its
\* chat's log, all other logs left alone.
C16_OneHandlerExactlyOnce ==
    /\ [](/\ listeners = (IF ChatMounted THEN [newMessage |-> 1, typing |-> 1]
                                         ELSE NoListeners)
          /\ CleanupListeners(listeners) = NoListeners)
    /\ [][ (last'.op = "newMessage" /\ last'.msg.senderId # currentUserId) =>
              messages' = AppendTo(messages, last'.msg.chatId, last'.msg) ]_vars

\* C16 witness: the chat component was mounted by a login and the inbound
\* message of a peer that followed is in its chat's log once
C16_Witness ==
    /\ variant = "ChatApp"
    /\ storage = Persisted(NewUser(<<"y">>, 0, "k3x"))
    /\ last.op = "newMessage"
    /\ last.msg = PeerMessage("c1")
    /\ LogOf("c1") = << PeerMessage("c1") >>
    /\ listeners = [newMessage |-> 1, typing |-> 1]

\* C17: with a backend that answers every history request with the chat's
\* stored history, a chat that is active and has no history request in flight
\* has that history as a prefix of its log, whatever was put into the log
\* before the chat was opened or before the answer arrived; and a chat whose
\* log starts with its history is not requested again when it becomes active.
C17_HistoryLoadedOnOpen ==
    /\ [](\A c \in ChatIds :
            (activeChatId = c /\ pendingHistory[c] = 0)
               => IsPrefix(StoredHistory(c), LogOf(c)))
    /\ [][ \A c \in ChatIds :
              (activeChatId' = c /\ activeChatId # c /\ IsPrefix(StoredHistory(c), LogOf(c)))
                 => pendingHistory'[c] = pendingHistory[c] ]_vars

====
